---- MODULE Spec2Model ----
(***************************************************************************)
(* Thai audio transcription: the orchestration of transcribe.py            *)
(* (transcribe_thai, transcribe_batch), the entry script main.py and the   *)
(* duplicate-line auditor check_duplicates.py.                             *)
(*                                                                         *)
(* Paths are relative to the project folder (the folder of transcribe.py,  *)
(* which is also the working directory of the entry script) and are        *)
(* sequences of components; a first component "D:" stands for a folder on  *)
(* another drive.  A file is a record [dir, stem, ext]: its name is        *)
(* stem "." ext, so os.path.splitext(os.path.basename(f))[0] is f.stem.    *)
(***************************************************************************)
EXTENDS Integers, Sequences, FiniteSets, TLC

VARIABLES
    pc,              \* position of the running script
    mode,            \* "none", "batch", "single": which call the script made
    via,             \* "process_batch" or "direct": how transcribe_batch was called
    built,           \* the WhisperModel instances constructed so far: built[i] = [by, device]
    mainModel,       \* main.py's module-level `model` (0 = not loaded)
    audio_files,     \* transcribe_batch: the list of sources
    input_folder,    \* transcribe_batch: the folder given, NoPath if a list was given
    output_base_dir, \* transcribe_batch / transcribe_thai: NoPath when None
    model,           \* transcribe_batch: the local `model` (0 = None)
    gpuFailed,       \* the call's model load: WhisperModel(device="cuda") raised
    cpuFailed,       \* the call's model load: WhisperModel(device="cpu") raised
    results,         \* transcribe_batch: the results dict
    idx,             \* transcribe_batch: enumerate index of the loop
    summary,         \* transcribe_batch: what the final report printed
    cur,             \* transcribe_thai: original_path
    output_txt,      \* transcribe_thai: the output_txt argument, NoFile when None
    tmodel,          \* transcribe_thai: the local `model` (0 = None)
    converted,       \* transcribe_thai: audio_path = wav_path (the scratch file)
    ret,             \* transcribe_thai: the value returned
    cache,           \* files of the cache folder
    writes,          \* output files written: [dir, base, suffix, src]
    calls,           \* history: sources transcribe_thai was called with, with what happened
    engineUses,      \* history: [src, inst] for every model.transcribe call
    \* the text of one call of transcribe_thai, and its audit
    tpc,             \* position: "idle", "loop", "written", "audit", "audited"
    segs,            \* the segments the engine yields: [start, end, text], times in 1/100 s
    seg_i,           \* segments the loop has consumed
    full_text,       \* transcribe_thai: full_text
    timestamped_text, \* transcribe_thai: timestamped_text
    ts_file,         \* content of <base>_timestamped.txt
    plain_file,      \* content of <base>_plain.txt
    lines,           \* check_duplicates_in_file: the lines not read yet
    line_num,        \* check_duplicates_in_file: line_num
    seen,            \* check_duplicates_in_file: seen
    duplicates,      \* check_duplicates_in_file: duplicates
    findings,        \* check_duplicates_in_file: the (text, count) pairs returned
    readError,       \* check_duplicates_in_file: reading the file raised
    extracted,       \* history: what extract_text_from_timestamped gave for each line
    files_with_duplicates \* check_all_timestamped_files: files_with_duplicates

bvars == <<pc, mode, via, built, mainModel, audio_files, input_folder, output_base_dir,
           model, gpuFailed, cpuFailed, results, idx, summary, cur, output_txt, tmodel,
           converted, ret, cache, writes, calls, engineUses>>

tvars == <<tpc, segs, seg_i, full_text, timestamped_text, ts_file, plain_file, lines,
           line_num, seen, duplicates, findings, readError, extracted,
           files_with_duplicates>>

----------------------------------------------------------------------------
(* Bounds *)

\* longest explicit list of sources given to transcribe_batch
MaxList == 2

----------------------------------------------------------------------------
(* Values *)

None == <<"None">>
NoPath == <<"None">>
NoFile == [dir |-> <<>>, stem |-> "", ext |-> ""]
EmptyDict == [k \in {} |-> None]

\* the text transcribe_thai returns for a source (full_text.strip())
TextOf(src) == <<"text", src>>

File(d, s, e) == [dir |-> d, stem |-> s, ext |-> e]

DirAB == <<"audio_input", "A", "B">>
DirSub == <<"audio_input", "A", "B", "sub">>

\* the files on disk
Disk ==
    { File(DirAB, "x", "mp3"),
      File(DirAB, "x", "wav"),
      File(DirSub, "x", "mp3"),
      File(DirAB, "notes", "txt"),
      File(<<"other", "F">>, "y", "MP3"),
      File(<<"D:", "rec">>, "z", "flac") }

\* a path that names no file
Missing == File(DirAB, "gone", "m4a")

\* the folders on disk (os.path.isdir): every folder above a file, and an empty one
IsPrefix(p, q) == Len(p) <= Len(q) /\ SubSeq(q, 1, Len(p)) = p

Folders ==
    { <<"audio_input">>, <<"audio_input", "A">>, DirAB, DirSub, <<"audio_input", "E">>,
      <<"other">>, <<"other", "F">>, <<"D:", "rec">> }

\* str.lower() on the extensions in use
Lower(e) ==
    CASE e = "MP3" -> "mp3"
      [] e = "WAV" -> "wav"
      [] OTHER -> e

AudioExts == {"mp3", "wav", "m4a", "flac", "ogg", "wma", "mp4", "mkv"}

\* file.lower().endswith((".mp3", ".wav", ...))
IsAudio(f) == Lower(f.ext) \in AudioExts

\* audio_path.lower().endswith(".wav")
IsWav(f) == Lower(f.ext) = "wav"

\* os.path.join(cache_dir, f"{file_name}_temp.wav")
ScratchOf(f) == <<f.stem, "_temp.wav">>

----------------------------------------------------------------------------
(* transcribe_batch: discovery and the output folder *)

\* the audio files os.walk(folder) meets
Discovered(folder) == { f \in Disk : IsPrefix(folder, f.dir) /\ IsAudio(f) }

\* the orders os.walk (top-down) can list them in: a folder's own files come
\* before the files of the folders below it, otherwise in any order
WalkOrders(folder) ==
    LET S == Discovered(folder)
        n == Cardinality(S)
    IN { s \in [1..n -> S] :
            /\ \A i, j \in 1..n : i # j => s[i] # s[j]
            /\ \A i, j \in 1..n :
                  (i < j) => ~(s[j].dir # s[i].dir /\ IsPrefix(s[j].dir, s[i].dir)) }

\* os.path.relpath(input_folder_abs, base_dir) raises ValueError across drives
RelPathRaises(folder) == folder[1] = "D:"

\* OutputBaseDir with the "audio_input" prefix left in place
OutputBaseDir_KeepPrefix(folder) ==
    IF RelPathRaises(folder)
    THEN <<"output", folder[Len(folder)]>>
    ELSE <<"output">> \o folder

\* the output folder of a folder batch
OutputBaseDir(folder) ==
    IF RelPathRaises(folder)
    THEN <<"output", folder[Len(folder)]>>
    ELSE IF Len(folder) >= 2 /\ folder[1] = "audio_input"
         THEN <<"output">> \o SubSeq(folder, 2, Len(folder))
         ELSE <<"output">> \o folder

\* the lists of sources a caller may give
ListPool == { File(DirAB, "x", "mp3"), File(DirAB, "x", "wav"),
              File(DirSub, "x", "mp3"), Missing }

Lists == UNION { [1..n -> ListPool] : n \in 0..MaxList }

SeqRange(s) == { s[i] : i \in 1..Len(s) }

----------------------------------------------------------------------------
\* the script starts
BInit ==
    /\ pc = "main_load"
    /\ mode = "none"
    /\ via = "none"
    /\ built = <<>>
    /\ mainModel = 0
    /\ audio_files = <<>>
    /\ input_folder = NoPath
    /\ output_base_dir = NoPath
    /\ model = 0
    /\ gpuFailed = FALSE
    /\ cpuFailed = FALSE
    /\ results = EmptyDict
    /\ idx = 0
    /\ summary = [successful |-> 0, total |-> 0, failed |-> 0, names |-> <<>>]
    /\ cur = NoFile
    /\ output_txt = NoFile
    /\ tmodel = 0
    /\ converted = FALSE
    /\ ret = None
    /\ cache = {}
    /\ writes = {}
    /\ calls = <<>>
    /\ engineUses = {}

----------------------------------------------------------------------------
(* Helpers on the state *)

NewModel(by, device) == Append(built, [by |-> by, device |-> device])

Put(d, k, v) == [x \in DOMAIN d \cup {k} |-> IF x = k THEN v ELSE d[x]]

\* the current call's entry of the history, updated
Mark(field, value) ==
    [calls EXCEPT ![Len(calls)] = [calls[Len(calls)] EXCEPT ![field] = value]]

\* dict keys in insertion order: the sources in order of first occurrence
KeyOrder(s) ==
    LET F[i \in 0..Len(s)] ==
            IF i = 0 THEN <<>>
            ELSE IF \E j \in 1..(i - 1) : s[j] = s[i] THEN F[i - 1]
                 ELSE Append(F[i - 1], s[i])
    IN F[Len(s)]

\* output_dir of transcribe_thai
OutputDir == IF output_base_dir = NoPath THEN <<"output">> ELSE output_base_dir

\* os.path.isabs(output_txt)
IsAbs(f) == Len(f.dir) > 0 /\ f.dir[1] = "/"

\* the folder part and the name part of base_name under output_dir
BaseDir == IF output_txt = NoFile \/ IsAbs(output_txt) THEN <<>> ELSE output_txt.dir
BaseName == IF output_txt = NoFile THEN cur.stem ELSE output_txt.stem

OutFile(suffix) ==
    [dir |-> OutputDir \o BaseDir, base |-> BaseName, suffix |-> suffix, src |-> cur]

----------------------------------------------------------------------------
(* main.py *)

\* the module-level model load
MainLoad ==
    /\ pc = "main_load"
    /\ \/ /\ built' = NewModel("main", "cuda")
          /\ mainModel' = Len(built')
          /\ pc' = "main_call"
       \/ /\ built' = NewModel("main", "cpu")
          /\ mainModel' = Len(built')
          /\ pc' = "main_call"
       \/ /\ pc' = "exit1"
          /\ UNCHANGED <<built, mainModel>>
    /\ UNCHANGED <<mode, via, audio_files, input_folder, output_base_dir, model, gpuFailed,
                   cpuFailed, results, idx, summary, cur, output_txt, tmodel, converted,
                   ret, cache, writes, calls, engineUses>>
    /\ UNCHANGED tvars

----------------------------------------------------------------------------
(* transcribe_batch *)

\* entry: discovery, the empty check, the output folder
BatchEnter(isFolder, path, m) ==
    /\ mode' = "batch"
    /\ model' = m
    /\ IF isFolder
       THEN /\ input_folder' = path
            /\ audio_files' \in WalkOrders(path)
       ELSE /\ input_folder' = NoPath
            /\ audio_files' = path
    /\ IF Len(audio_files') = 0
       THEN /\ pc' = "done"
            /\ output_base_dir' = NoPath
       ELSE /\ pc' = "b_load"
            /\ output_base_dir' = IF isFolder THEN OutputBaseDir(path) ELSE NoPath
    /\ results' = EmptyDict
    /\ UNCHANGED <<built, mainModel, gpuFailed, cpuFailed, idx, summary, cur, output_txt,
                   tmodel, converted, ret, cache, writes, calls, engineUses>>
    /\ UNCHANGED tvars

\* main.py's helper: transcribe_batch(path), no model passed
ProcessBatch ==
    /\ pc = "main_call"
    /\ via' = "process_batch"
    /\ \/ \E path \in Folders : BatchEnter(TRUE, path, 0)
       \/ \E path \in Lists : BatchEnter(FALSE, path, 0)

\* a direct call of transcribe_batch, with or without the loaded model
CallBatch ==
    /\ pc = "main_call"
    /\ via' = "direct"
    /\ \E m \in {0, mainModel} :
          \/ \E path \in Folders : BatchEnter(TRUE, path, m)
          \/ \E path \in Lists : BatchEnter(FALSE, path, m)

\* BatchLoad without the CPU fallback: a failed GPU construction ends the batch
BatchLoad_NoFallback ==
    /\ pc = "b_load"
    /\ \/ /\ model # 0
          /\ pc' = "b_loop"
          /\ UNCHANGED <<built, model, gpuFailed, cpuFailed>>
       \/ /\ model = 0
          /\ built' = NewModel("batch", "cuda")
          /\ model' = Len(built')
          /\ pc' = "b_loop"
          /\ UNCHANGED <<gpuFailed, cpuFailed>>
       \/ /\ model = 0
          /\ gpuFailed' = TRUE
          /\ pc' = "done"
          /\ UNCHANGED <<built, model, cpuFailed>>
    /\ idx' = 1
    /\ UNCHANGED <<mode, via, mainModel, audio_files, input_folder, output_base_dir,
                   results, summary, cur, output_txt, tmodel, converted, ret, cache,
                   writes, calls, engineUses>>
    /\ UNCHANGED tvars

\* load the model once, or use the one given
BatchLoad ==
    /\ pc = "b_load"
    /\ \/ /\ model # 0
          /\ pc' = "b_loop"
          /\ UNCHANGED <<built, model, gpuFailed, cpuFailed>>
       \/ /\ model = 0
          /\ built' = NewModel("batch", "cuda")
          /\ model' = Len(built')
          /\ pc' = "b_loop"
          /\ UNCHANGED <<gpuFailed, cpuFailed>>
       \/ /\ model = 0
          /\ gpuFailed' = TRUE
          /\ built' = NewModel("batch", "cpu")
          /\ model' = Len(built')
          /\ pc' = "b_loop"
          /\ UNCHANGED cpuFailed
       \/ /\ model = 0
          /\ gpuFailed' = TRUE
          /\ cpuFailed' = TRUE
          /\ pc' = "done"
          /\ UNCHANGED <<built, model>>
    /\ idx' = 1
    /\ UNCHANGED <<mode, via, mainModel, audio_files, input_folder, output_base_dir,
                   results, summary, cur, output_txt, tmodel, converted, ret, cache,
                   writes, calls, engineUses>>
    /\ UNCHANGED tvars

\* one turn of the loop: call transcribe_thai on the next source
BatchNext ==
    /\ pc = "b_loop"
    /\ idx <= Len(audio_files)
    /\ cur' = audio_files[idx]
    /\ tmodel' = model
    /\ output_txt' = NoFile
    /\ converted' = FALSE
    /\ calls' = Append(calls, [src |-> audio_files[idx], conv |-> "na", end |-> "running"])
    /\ pc' = "tt_exists"
    /\ UNCHANGED <<mode, via, built, mainModel, audio_files, input_folder,
                   output_base_dir, model, gpuFailed, cpuFailed, results, idx, summary,
                   ret, cache, writes, engineUses>>
    /\ UNCHANGED tvars

\* BatchStore that keeps only the sources that gave a text
BatchStore_SkipNone ==
    /\ pc = "tt_ret"
    /\ mode = "batch"
    /\ results' = IF ret = None THEN results ELSE Put(results, cur, ret)
    /\ idx' = idx + 1
    /\ pc' = "b_loop"
    /\ UNCHANGED <<mode, via, built, mainModel, audio_files, input_folder,
                   output_base_dir, model, gpuFailed, cpuFailed, summary, cur, output_txt,
                   tmodel, converted, ret, cache, writes, calls, engineUses>>
    /\ UNCHANGED tvars

\* results[audio_file] = result
BatchStore ==
    /\ pc = "tt_ret"
    /\ mode = "batch"
    /\ results' = Put(results, cur, ret)
    /\ idx' = idx + 1
    /\ pc' = "b_loop"
    /\ UNCHANGED <<mode, via, built, mainModel, audio_files, input_folder,
                   output_base_dir, model, gpuFailed, cpuFailed, summary, cur, output_txt,
                   tmodel, converted, ret, cache, writes, calls, engineUses>>
    /\ UNCHANGED tvars

\* BatchExcept that lets the exception end the loop
BatchExcept_Abort ==
    /\ pc = "tt_raise"
    /\ mode = "batch"
    /\ results' = Put(results, cur, None)
    /\ pc' = "done"
    /\ UNCHANGED <<mode, via, built, mainModel, audio_files, input_folder,
                   output_base_dir, model, gpuFailed, cpuFailed, idx, summary, cur,
                   output_txt, tmodel, converted, ret, cache, writes, calls, engineUses>>
    /\ UNCHANGED tvars

\* except Exception: results[audio_file] = None
BatchExcept ==
    /\ pc = "tt_raise"
    /\ mode = "batch"
    /\ results' = Put(results, cur, None)
    /\ idx' = idx + 1
    /\ pc' = "b_loop"
    /\ UNCHANGED <<mode, via, built, mainModel, audio_files, input_folder,
                   output_base_dir, model, gpuFailed, cpuFailed, summary, cur, output_txt,
                   tmodel, converted, ret, cache, writes, calls, engineUses>>
    /\ UNCHANGED tvars

\* the final report, and return results
BatchSummary ==
    /\ pc = "b_loop"
    /\ idx > Len(audio_files)
    /\ LET successful == Cardinality({k \in DOMAIN results : results[k] # None})
           total == Len(audio_files)
           keys == KeyOrder(audio_files)
           failedKeys == SelectSeq(keys, LAMBDA k : results[k] = None)
       IN summary' = [successful |-> successful,
                      total |-> total,
                      failed |-> IF successful < total THEN total - successful ELSE 0,
                      names |-> IF successful < total
                                THEN [i \in 1..Len(failedKeys) |->
                                         <<failedKeys[i].stem, failedKeys[i].ext>>]
                                ELSE <<>>]
    /\ pc' = "done"
    /\ UNCHANGED <<mode, via, built, mainModel, audio_files, input_folder,
                   output_base_dir, model, gpuFailed, cpuFailed, results, idx, cur,
                   output_txt, tmodel, converted, ret, cache, writes, calls, engineUses>>
    /\ UNCHANGED tvars

----------------------------------------------------------------------------
(* transcribe_thai *)

\* the sources and output names of a single-file call
SinglePool == { File(DirAB, "x", "mp3"), File(DirAB, "x", "wav"), Missing }
OutputTxts == { NoFile, File(<<>>, "t", "txt"), File(<<"/", "tmp">>, "t", "txt") }

\* main.py's single-file call: transcribe_thai(audio_file, output_file)
CallSingle ==
    /\ pc = "main_call"
    /\ mode' = "single"
    /\ \E src \in SinglePool, o \in OutputTxts, m \in {0, mainModel} :
          /\ cur' = src
          /\ output_txt' = o
          /\ tmodel' = m
          /\ calls' = Append(calls, [src |-> src, conv |-> "na", end |-> "running"])
    /\ converted' = FALSE
    /\ pc' = "tt_exists"
    /\ UNCHANGED <<via, built, mainModel, audio_files, input_folder, output_base_dir,
                   model, gpuFailed, cpuFailed, results, idx, summary, ret, cache, writes,
                   engineUses>>
    /\ UNCHANGED tvars

\* if not os.path.exists(audio_path): return None
TT_Exists ==
    /\ pc = "tt_exists"
    /\ IF cur \in Disk
       THEN /\ pc' = "tt_convert"
            /\ UNCHANGED <<ret, calls>>
       ELSE /\ ret' = None
            /\ calls' = Mark("end", "notfound")
            /\ pc' = "tt_ret"
    /\ UNCHANGED <<mode, via, built, mainModel, audio_files, input_folder,
                   output_base_dir, model, gpuFailed, cpuFailed, results, idx, summary,
                   cur, output_txt, tmodel, converted, cache, writes, engineUses>>
    /\ UNCHANGED tvars

\* convert to WAV in the cache folder, unless the source is a WAV
TT_Convert ==
    /\ pc = "tt_convert"
    /\ \/ /\ IsWav(cur)
          /\ pc' = "tt_load"
          /\ UNCHANGED <<converted, cache, calls>>
       \/ /\ ~IsWav(cur)               \* os.makedirs(cache_dir) raises: not caught here
          /\ calls' = Mark("end", "cache_raise")
          /\ pc' = "tt_raise"
          /\ UNCHANGED <<converted, cache>>
       \/ /\ ~IsWav(cur)               \* from_file and export succeed
          /\ cache' = cache \cup {ScratchOf(cur)}
          /\ converted' = TRUE
          /\ calls' = Mark("conv", "ok")
          /\ pc' = "tt_load"
       \/ /\ ~IsWav(cur)               \* the conversion raises: go on with the original
          /\ calls' = Mark("conv", "fail")
          /\ pc' = "tt_load"
          /\ UNCHANGED <<converted, cache>>
    /\ UNCHANGED <<mode, via, built, mainModel, audio_files, input_folder,
                   output_base_dir, model, gpuFailed, cpuFailed, results, idx, summary,
                   cur, output_txt, tmodel, ret, writes, engineUses>>
    /\ UNCHANGED tvars

\* load the model if none was given
TT_Load ==
    /\ pc = "tt_load"
    /\ \/ /\ tmodel # 0
          /\ pc' = "tt_engine"
          /\ UNCHANGED <<built, tmodel, gpuFailed, cpuFailed, ret, calls>>
       \/ /\ tmodel = 0
          /\ built' = NewModel("thai", "cuda")
          /\ tmodel' = Len(built')
          /\ pc' = "tt_engine"
          /\ UNCHANGED <<gpuFailed, cpuFailed, ret, calls>>
       \/ /\ tmodel = 0
          /\ gpuFailed' = TRUE
          /\ built' = NewModel("thai", "cpu")
          /\ tmodel' = Len(built')
          /\ pc' = "tt_engine"
          /\ UNCHANGED <<cpuFailed, ret, calls>>
       \/ /\ tmodel = 0
          /\ gpuFailed' = TRUE
          /\ cpuFailed' = TRUE
          /\ ret' = None
          /\ calls' = Mark("end", "load_fail")
          /\ pc' = "tt_ret"
          /\ UNCHANGED <<built, tmodel>>
    /\ UNCHANGED <<mode, via, mainModel, audio_files, input_folder, output_base_dir,
                   model, results, idx, summary, cur, output_txt,
                   converted, cache, writes, engineUses>>
    /\ UNCHANGED tvars

\* the try block: the engine call, the two writes, the cleanup
TT_Transcribe ==
    /\ pc = "tt_engine"
    /\ engineUses' = engineUses \cup {[src |-> cur, inst |-> tmodel]}
    /\ \/ /\ calls' = Mark("end", "engine_raise")
          /\ ret' = None
          /\ UNCHANGED <<writes, cache>>
       \/ /\ calls' = Mark("end", "ts_raise")      \* makedirs or the first open raises
          /\ ret' = None
          /\ UNCHANGED <<writes, cache>>
       \/ /\ calls' = Mark("end", "plain_raise")   \* the second open or write raises
          /\ writes' = writes \cup {OutFile("_timestamped.txt")}
          /\ ret' = None
          /\ UNCHANGED cache
       \/ /\ calls' = Mark("end", "ok")
          /\ writes' = writes \cup {OutFile("_timestamped.txt"), OutFile("_plain.txt")}
          /\ cache' = IF converted THEN cache \ {ScratchOf(cur)} ELSE cache
          /\ ret' = TextOf(cur)
    /\ pc' = "tt_ret"
    /\ UNCHANGED <<mode, via, built, mainModel, audio_files, input_folder,
                   output_base_dir, model, gpuFailed, cpuFailed, results, idx, summary,
                   cur, output_txt, tmodel, converted>>
    /\ UNCHANGED tvars

\* the single-file call returns to the script
SingleReturn ==
    /\ pc \in {"tt_ret", "tt_raise"}
    /\ mode = "single"
    /\ pc' = IF pc = "tt_ret" THEN "done" ELSE "crashed"
    /\ UNCHANGED <<mode, via, built, mainModel, audio_files, input_folder,
                   output_base_dir, model, gpuFailed, cpuFailed, results, idx, summary,
                   cur, output_txt, tmodel, converted, ret, cache, writes, calls,
                   engineUses>>
    /\ UNCHANGED tvars

----------------------------------------------------------------------------
(* Text: strings are sequences of characters; "->" stands for the arrow      *)
(* character of the marker and "\n" for the newline.  A time of t seconds is *)
(* the integer 100 * t, the hundredths the format "{:.2f}" prints.           *)

\* longest segment sequence the engine yields
MaxSegs == 3

IsSpace(ch) == ch \in {" ", "\n"}

DigitChar == <<"0", "1", "2", "3", "4", "5", "6", "7", "8", "9">>

IsDigit(ch) == \E d \in 1..10 : DigitChar[d] = ch

\* str.lstrip() / str.strip()
LStrip(s) ==
    LET first == IF \A i \in 1..Len(s) : IsSpace(s[i]) THEN Len(s) + 1
                 ELSE CHOOSE i \in 1..Len(s) :
                          ~IsSpace(s[i]) /\ \A j \in 1..(i - 1) : IsSpace(s[j])
    IN SubSeq(s, first, Len(s))

RStrip(s) ==
    LET last == IF \A i \in 1..Len(s) : IsSpace(s[i]) THEN 0
                ELSE CHOOSE i \in 1..Len(s) :
                         ~IsSpace(s[i]) /\ \A j \in (i + 1)..Len(s) : IsSpace(s[j])
    IN SubSeq(s, 1, last)

Strip(s) == LStrip(RStrip(s))

\* the decimal digits of a natural number
RECURSIVE Digits(_)
Digits(n) == IF n < 10 THEN <<DigitChar[n + 1]>>
             ELSE Append(Digits(n \div 10), DigitChar[(n % 10) + 1])

\* Fmt2f with the whole seconds padded to two digits
Fmt2f_Padded(cs) ==
    (IF cs < 1000 THEN <<"0">> ELSE <<>>)
        \o Digits(cs \div 100) \o <<".">>
        \o <<DigitChar[((cs \div 10) % 10) + 1], DigitChar[(cs % 10) + 1]>>

\* f"{t:.2f}"
Fmt2f(cs) ==
    Digits(cs \div 100) \o <<".">>
        \o <<DigitChar[((cs \div 10) % 10) + 1], DigitChar[(cs % 10) + 1]>>

\* f"[{seg.start:.2f}s -> {seg.end:.2f}s] {seg.text}\n"
TimestampedLine(seg) ==
    <<"[">> \o Fmt2f(seg.start) \o <<"s", " ", "->", " ">> \o Fmt2f(seg.end)
        \o <<"s", "]", " ">> \o seg.text \o <<"\n">>

\* the lines iterating over a text file yields, each with its newline
Lines(c) ==
    LET n == Len(c)
        starts == { i \in 1..n : i = 1 \/ c[i - 1] = "\n" }
        EndOf(a) == IF \E i \in a..n : c[i] = "\n"
                    THEN CHOOSE i \in a..n :
                             c[i] = "\n" /\ \A j \in a..(i - 1) : c[j] # "\n"
                    ELSE n
        Kth(k) == CHOOSE a \in starts : Cardinality({ b \in starts : b < a }) = k - 1
    IN [k \in 1..Cardinality(starts) |-> SubSeq(c, Kth(k), EndOf(Kth(k)))]

\* re.match(r'\[\d{2}\.\d{2}s -> \d{2}\.\d{2}s\]', l)
MarkerMatches(l) ==
    /\ Len(l) >= 17
    /\ l[1] = "["
    /\ IsDigit(l[2]) /\ IsDigit(l[3])
    /\ l[4] = "."
    /\ IsDigit(l[5]) /\ IsDigit(l[6])
    /\ l[7] = "s" /\ l[8] = " " /\ l[9] = "->" /\ l[10] = " "
    /\ IsDigit(l[11]) /\ IsDigit(l[12])
    /\ l[13] = "."
    /\ IsDigit(l[14]) /\ IsDigit(l[15])
    /\ l[16] = "s" /\ l[17] = "]"

\* (.*): the characters up to the first newline
UpToNewline(s) ==
    LET stop == IF \A i \in 1..Len(s) : s[i] # "\n" THEN Len(s) + 1
                ELSE CHOOSE i \in 1..Len(s) :
                         s[i] = "\n" /\ \A j \in 1..(i - 1) : s[j] # "\n"
    IN SubSeq(s, 1, stop - 1)

\* check_duplicates.py
extract_text_from_timestamped(line) ==
    LET l == Strip(line)
    IN IF MarkerMatches(l)
       THEN UpToNewline(LStrip(SubSeq(l, 18, Len(l))))
       ELSE l

\* the length below which a text is not counted
MinTextLen == 10

\* the texts and segments the engine may yield
Chars(n, ch) == [i \in 1..n |-> ch]
TextA == <<"A">>
TextB == <<"B">>
Long10 == Chars(10, "a")
Short9 == Chars(9, "b")

Seg(a, b, t) == [start |-> a, end |-> b, text |-> t]

SegPool ==
    { Seg(0, 150, TextA), Seg(150, 300, TextB),
      Seg(1234, 1502, Long10), Seg(1502, 2000, Long10),
      Seg(1234, 1502, Short9),
      Seg(150, 300, Long10),
      Seg(10000, 10150, Long10),
      Seg(2000, 2000, <<" ">> \o Long10),
      Seg(0, 150, <<"A", " ">>),
      Seg(1234, 1502, <<>>) }

SegLists == UNION { [1..n -> SegPool] : n \in 0..MaxSegs }

NotWritten == <<"None">>

\* nothing is being transcribed
TIdle ==
    /\ tpc = "idle"
    /\ segs = <<>>
    /\ seg_i = 0
    /\ full_text = <<>>
    /\ timestamped_text = <<>>
    /\ ts_file = NotWritten
    /\ plain_file = NotWritten
    /\ lines = <<>>
    /\ line_num = 0
    /\ seen = EmptyDict
    /\ duplicates = EmptyDict
    /\ findings = {}
    /\ readError = FALSE
    /\ extracted = <<>>
    /\ files_with_duplicates = EmptyDict

\* the engine has returned its segments to transcribe_thai
TStart ==
    /\ tpc = "loop"
    /\ segs \in SegLists
    /\ seg_i = 0
    /\ full_text = <<>>
    /\ timestamped_text = <<>>
    /\ ts_file = NotWritten
    /\ plain_file = NotWritten
    /\ lines = <<>>
    /\ line_num = 0
    /\ seen = EmptyDict
    /\ duplicates = EmptyDict
    /\ findings = {}
    /\ readError = FALSE
    /\ extracted = <<>>
    /\ files_with_duplicates = EmptyDict

\* for seg in segments: one turn
SegLoop ==
    /\ tpc = "loop"
    /\ seg_i < Len(segs)
    /\ LET seg == segs[seg_i + 1]
       IN /\ full_text' = full_text \o seg.text \o <<" ">>
          /\ timestamped_text' = timestamped_text \o TimestampedLine(seg)
    /\ seg_i' = seg_i + 1
    /\ UNCHANGED <<tpc, segs, ts_file, plain_file, lines, line_num, seen, duplicates,
                   findings, readError, extracted>>
    /\ UNCHANGED <<bvars, files_with_duplicates>>

\* the two files are written, each stripped
WriteFiles ==
    /\ tpc = "loop"
    /\ seg_i = Len(segs)
    /\ ts_file' = Strip(timestamped_text)
    /\ plain_file' = Strip(full_text)
    /\ tpc' = "written"
    /\ UNCHANGED <<segs, seg_i, full_text, timestamped_text, lines, line_num, seen,
                   duplicates, findings, readError, extracted>>
    /\ UNCHANGED <<bvars, files_with_duplicates>>

\* check_duplicates_in_file opens the timestamped file
AuditOpen ==
    /\ tpc = "written"
    /\ lines' = Lines(ts_file)
    /\ line_num' = 0
    /\ seen' = EmptyDict
    /\ duplicates' = EmptyDict
    /\ tpc' = "audit"
    /\ UNCHANGED <<segs, seg_i, full_text, timestamped_text, ts_file, plain_file,
                   findings, readError, extracted>>
    /\ UNCHANGED <<bvars, files_with_duplicates>>

\* AuditLine counting only the occurrences after the first
AuditLine_CountRepeats ==
    /\ tpc = "audit"
    /\ lines # <<>>
    /\ LET text == extract_text_from_timestamped(Head(lines))
       IN /\ extracted' = Append(extracted, text)
          /\ IF Len(text) > 0 /\ Len(text) >= MinTextLen
             THEN IF text \in DOMAIN seen
                  THEN /\ duplicates' = Put(duplicates, text, duplicates[text] + 1)
                       /\ UNCHANGED seen
                  ELSE /\ seen' = Put(seen, text, line_num + 1)
                       /\ duplicates' = Put(duplicates, text, 0)
             ELSE UNCHANGED <<seen, duplicates>>
    /\ line_num' = line_num + 1
    /\ lines' = Tail(lines)
    /\ UNCHANGED <<tpc, segs, seg_i, full_text, timestamped_text, ts_file, plain_file,
                   findings, readError>>
    /\ UNCHANGED <<bvars, files_with_duplicates>>

\* for line_num, line in enumerate(f, 1): one turn
AuditLine ==
    /\ tpc = "audit"
    /\ lines # <<>>
    /\ LET text == extract_text_from_timestamped(Head(lines))
       IN /\ extracted' = Append(extracted, text)
          /\ IF Len(text) > 0 /\ Len(text) >= MinTextLen
             THEN IF text \in DOMAIN seen
                  THEN /\ duplicates' = Put(duplicates, text, duplicates[text] + 1)
                       /\ UNCHANGED seen
                  ELSE /\ seen' = Put(seen, text, line_num + 1)
                       /\ duplicates' = Put(duplicates, text, 1)
             ELSE UNCHANGED <<seen, duplicates>>
    /\ line_num' = line_num + 1
    /\ lines' = Tail(lines)
    /\ UNCHANGED <<tpc, segs, seg_i, full_text, timestamped_text, ts_file, plain_file,
                   findings, readError>>
    /\ UNCHANGED <<bvars, files_with_duplicates>>

\* opening or reading the file raises: return []
AuditReadError ==
    /\ tpc \in {"written", "audit"}
    /\ readError' = TRUE
    /\ findings' = {}
    /\ tpc' = "audited"
    /\ UNCHANGED <<segs, seg_i, full_text, timestamped_text, ts_file, plain_file, lines,
                   line_num, seen, duplicates, extracted>>
    /\ UNCHANGED <<bvars, files_with_duplicates>>

\* return the texts counted more than once
AuditReturn ==
    /\ tpc = "audit"
    /\ lines = <<>>
    /\ findings' = { <<t, duplicates[t]>> : t \in {x \in DOMAIN duplicates : duplicates[x] > 1} }
    /\ tpc' = "audited"
    /\ UNCHANGED <<segs, seg_i, full_text, timestamped_text, ts_file, plain_file, lines,
                   line_num, seen, duplicates, readError, extracted>>
    /\ UNCHANGED <<bvars, files_with_duplicates>>

\* str(filepath.relative_to(output_path)) of the file audited
AuditedFile == <<"x_timestamped.txt">>

\* check_all_timestamped_files: one turn of its loop, after the file's check
CheckAllCollect ==
    /\ tpc = "audited"
    /\ files_with_duplicates' =
          IF findings # {} THEN Put(files_with_duplicates, AuditedFile, findings)
          ELSE files_with_duplicates
    /\ tpc' = "checked"
    /\ UNCHANGED <<segs, seg_i, full_text, timestamped_text, ts_file, plain_file, lines,
                   line_num, seen, duplicates, findings, readError, extracted>>
    /\ UNCHANGED bvars

----------------------------------------------------------------------------
vars == <<bvars, tvars>>

Next ==
    \/ MainLoad
    \/ ProcessBatch
    \/ CallBatch
    \/ CallSingle
    \/ BatchLoad
    \/ BatchNext
    \/ BatchStore
    \/ BatchExcept
    \/ BatchSummary
    \/ TT_Exists
    \/ TT_Convert
    \/ TT_Load
    \/ TT_Transcribe
    \/ SingleReturn

Init == BInit /\ TIdle

Spec == Init /\ [][Next]_vars

\* one call's text, from the engine's segments to the audit of the file written
InitText == BInit /\ TStart

NextText ==
    \/ SegLoop
    \/ WriteFiles
    \/ AuditOpen
    \/ AuditLine
    \/ AuditReadError
    \/ AuditReturn
    \/ CheckAllCollect

SpecText == InitText /\ [][NextText]_vars

----------------------------------------------------------------------------
(* Properties of the orchestration, checked under Spec *)

\* the calls of transcribe_thai whose result the batch has taken
Stored == IF pc \in {"b_loop", "done"} THEN Len(calls) ELSE Len(calls) - 1

\* call i is the last stored call for its source
LastStored(i) == \A j \in (i + 1)..Stored : calls[j].src # calls[i].src

\* transcribe_batch has its model
Acquired == mode = "batch" /\ model # 0

\* the batch calls transcribe_thai on the sources in list order, each once
InSequence ==
    /\ Len(calls) <= Len(audio_files)
    /\ \A i \in 1..Len(calls) : calls[i].src = audio_files[i]
    /\ pc = "done" => Len(calls) = Len(audio_files)

\* C1: whenever a call of transcribe_thai that converted its source to a scratch
\* WAV returns, the scratch file is gone from the cache folder, on every exit path.
C1_ScratchGoneOnReturn ==
    (pc = "tt_ret" /\ converted) => ScratchOf(cur) \notin cache

\* C2 as stated: once the model is acquired every source is processed in list
\* order, none twice, and a source that does not exist, whose conversion fails
\* or whose engine call raises has a null result.
C2_FailuresAreNull ==
    Acquired =>
        /\ InSequence
        /\ \A i \in 1..Stored :
              (LastStored(i) /\ (calls[i].end \in {"notfound", "engine_raise"}
                                 \/ calls[i].conv = "fail"))
                  => results[calls[i].src] = None

\* C2 amended: once the model is acquired every source is processed in list
\* order, none twice; a source has a null result exactly when it does not exist
\* or something raised in its call (the cache folder, the engine, a write); a
\* source whose conversion failed is transcribed from the original file and has
\* the text if nothing raised.
C2_BatchGoesOn ==
    Acquired =>
        /\ InSequence
        /\ \A i \in 1..Stored :
              LastStored(i) =>
                  results[calls[i].src] =
                      IF calls[i].end = "ok" THEN TextOf(calls[i].src) ELSE None

C2_Witness ==
    /\ Acquired
    /\ pc = "done"
    /\ Len(calls) = 2
    /\ calls[1].end = "cache_raise"
    /\ calls[2].conv = "fail"
    /\ calls[2].end = "ok"

\* C3 as stated: for every input list the mapping transcribe_batch returns has
\* the requested sources as its key set.
C3_KeysAreTheSources ==
    (mode = "batch" /\ pc = "done") => DOMAIN results = SeqRange(audio_files)

\* C3 amended: for every input list for which a model is acquired (or that is
\* empty) the mapping returned has the requested sources as its key set, and
\* while the loop runs the keys are the sources processed so far.
C3_KeysWhenAcquired ==
    (mode = "batch" /\ (model # 0 \/ Len(audio_files) = 0)) =>
        /\ DOMAIN results = { calls[i].src : i \in 1..Stored }
        /\ pc = "done" => DOMAIN results = SeqRange(audio_files)

C3_Witness ==
    /\ mode = "batch"
    /\ pc = "done"
    /\ Len(audio_files) = 2
    /\ Cardinality(DOMAIN results) = 2
    /\ \E k \in DOMAIN results : results[k] = None
    /\ \E k \in DOMAIN results : results[k] # None

\* C4: within one batch no two distinct sources are written to the same output
\* file path.
C4_NoSharedOutputPath ==
    mode = "batch" =>
        \A w1, w2 \in writes :
            (w1.dir = w2.dir /\ w1.base = w2.base /\ w1.suffix = w2.suffix)
                => w1.src = w2.src

\* C5: in a batch the model is acquired once and used for every source, no
\* per-file call constructs one, and a batch started through process_batch with
\* main.py's model loaded constructs none.
C5_OneModelPerRun ==
    mode = "batch" =>
        /\ \A u \in engineUses : u.inst = model
        /\ \A i \in 1..Len(built) : built[i].by # "thai"
        /\ Cardinality({i \in 1..Len(built) : built[i].by = "batch"}) <= 1
        /\ (via = "process_batch" /\ mainModel # 0) =>
               \A i \in 1..Len(built) : built[i].by # "batch"

\* C6: when the GPU construction fails and the CPU construction does not, the
\* CPU model is the one every source is transcribed with, and the batch runs to
\* its end with the results the sources' own outcomes give.
C6_CpuFallback ==
    (mode = "batch" /\ gpuFailed /\ ~cpuFailed) =>
        /\ model # 0
        /\ model <= Len(built)
        /\ built[model].device = "cpu"
        /\ \A u \in engineUses : u.inst = model
        /\ pc = "done" =>
              /\ Len(calls) = Len(audio_files)
              /\ results = [k \in SeqRange(audio_files) |->
                              LET last == CHOOSE i \in 1..Len(calls) :
                                              /\ calls[i].src = k
                                              /\ \A j \in (i + 1)..Len(calls) :
                                                     calls[j].src # k
                              IN IF calls[last].end = "ok" THEN TextOf(k) ELSE None]

C6_Witness ==
    /\ mode = "batch"
    /\ gpuFailed /\ ~cpuFailed
    /\ pc = "done"
    /\ Len(audio_files) = 2
    /\ \A k \in DOMAIN results : results[k] # None

\* the folder batches the mirroring rule is about: <project>/audio_input/<subpath>
MirroredBatch ==
    /\ mode = "batch"
    /\ input_folder # NoPath
    /\ Len(input_folder) >= 2
    /\ input_folder[1] = "audio_input"

\* C10 as stated: every file of a folder batch is written to the folder that
\* mirrors the file's own folder, nested subfolders included.
C10_MirrorsOwnFolder ==
    MirroredBatch =>
        \A w \in writes :
            /\ w.dir = <<"output">> \o Tail(w.src.dir)
            /\ w.base = w.src.stem

\* C10 amended: every file of a folder batch, also one found in a nested
\* subfolder, is written to the one folder that mirrors the input folder,
\* output/<subpath>, under its own base name; a file directly in the input
\* folder is thereby in the mirror of its own folder.
C10_MirrorsInputFolder ==
    MirroredBatch =>
        /\ \A w \in writes :
              /\ w.dir = <<"output">> \o Tail(input_folder)
              /\ w.base = w.src.stem
              /\ w.src.dir = input_folder => w.dir = <<"output">> \o Tail(w.src.dir)
        /\ \A i \in 1..Len(calls) :
              calls[i].end = "ok" =>
                  \A sfx \in {"_plain.txt", "_timestamped.txt"} :
                      [dir |-> <<"output">> \o Tail(input_folder),
                       base |-> calls[i].src.stem, suffix |-> sfx,
                       src |-> calls[i].src] \in writes

C10_Witness ==
    /\ MirroredBatch
    /\ input_folder = DirAB
    /\ pc = "done"
    /\ \E w \in writes : w.src.dir = DirSub /\ w.suffix = "_plain.txt"
    /\ \E w \in writes : w.src.dir = DirAB /\ w.suffix = "_plain.txt"

----------------------------------------------------------------------------
(* Properties of the text written and of its audit, checked under SpecText *)

Written == tpc \in {"written", "audit", "audited"}

\* the file was read to its end and the pairs returned
Audited == tpc = "audited" /\ ~readError

RECURSIVE JoinWith(_, _)
JoinWith(parts, sep) ==
    IF Len(parts) = 0 THEN <<>>
    ELSE IF Len(parts) = 1 THEN parts[1]
    ELSE parts[1] \o <<sep>> \o JoinWith(Tail(parts), sep)

\* how the times in use read with two fractional digits
Shown(cs) ==
    CASE cs = 0 -> <<"0", ".", "0", "0">>
      [] cs = 150 -> <<"1", ".", "5", "0">>
      [] cs = 300 -> <<"3", ".", "0", "0">>
      [] cs = 1234 -> <<"1", "2", ".", "3", "4">>
      [] cs = 1502 -> <<"1", "5", ".", "0", "2">>
      [] cs = 2000 -> <<"2", "0", ".", "0", "0">>
      [] cs = 10000 -> <<"1", "0", "0", ".", "0", "0">>
      [] cs = 10150 -> <<"1", "0", "1", ".", "5", "0">>

\* the same, the whole seconds padded to two digits as in "[00.00s -> 01.50s]"
ShownPadded(cs) == IF cs < 1000 THEN <<"0">> \o Shown(cs) ELSE Shown(cs)

MarkerLine(seg, Show(_)) ==
    <<"[">> \o Show(seg.start) \o <<"s", " ", "->", " ">> \o Show(seg.end)
        \o <<"s", "]", " ">> \o seg.text

SegTexts == [i \in 1..Len(segs) |-> segs[i].text]

ExampleSegs == <<Seg(0, 150, TextA), Seg(150, 300, TextB)>>

Clean(t) == Len(t) > 0 /\ ~IsSpace(t[1]) /\ ~IsSpace(t[Len(t)])

\* C8: for every line written for a segment, whatever its times,
\* extract_text_from_timestamped returns exactly the segment's text (stated for
\* texts without outer whitespace, which the marker alone decides).
C8_MarkerAlwaysStripped ==
    (Audited /\ \A i \in 1..Len(segs) : Clean(segs[i].text)) => extracted = SegTexts

ExtractedTextsAreLong ==
    /\ \A f \in findings : Len(f[1]) >= 10
    /\ \A k \in DOMAIN files_with_duplicates :
          \A f \in files_with_duplicates[k] : Len(f[1]) >= 10

\* C11: no text shorter than 10 characters is in a finding of
\* check_duplicates_in_file or check_all_timestamped_files, however often it is
\* repeated and whether or not its line carries a marker: no pair returned is
\* the pair of a line whose segment text is shorter than 10 characters.
C11_NoShortTextInFindings ==
    \A i \in 1..Len(extracted) :
        Len(segs[i].text) < 10 =>
            /\ \A f \in findings : f[1] # extracted[i]
            /\ \A k \in DOMAIN files_with_duplicates :
                  \A f \in files_with_duplicates[k] : f[1] # extracted[i]

\* C12: after a batch that processed at least one source the report agrees
\* with the results: successes plus failures is the total, the failure count is
\* the number of names listed, and the names are those of the null results.
C12_SummaryConsistent ==
    (mode = "batch" /\ pc = "done" /\ Len(calls) >= 1) =>
        /\ summary.successful + summary.failed = summary.total
        /\ summary.failed = Len(summary.names)
        /\ { summary.names[i] : i \in 1..Len(summary.names) } =
               { <<k.stem, k.ext>> : k \in { x \in DOMAIN results : results[x] = None } }

====
